---------------------------- MODULE Spec2Model ----------------------------
(***************************************************************************)
(* A model of icpc/reactions-generator.                                    *)
(*                                                                         *)
(*   Spec      the frame-streaming pipeline, cli.py render(): one render   *)
(*             job, its encoder child process, the temporary and the       *)
(*             final file, the except handler and the atexit hook.         *)
(*   SpecJobs  two render jobs with different destination paths and the    *)
(*             paths each of them writes or renames.                       *)
(*   SpecCard  the card animator, card.py Card: the frame-indexed rank,    *)
(*             badge offset, background colour, status text and clock,     *)
(*             with interpolate.py interpolate().                          *)
(*   SpecClock the same animator on cards with a short lead, elapsed       *)
(*             times around zero, a minute and an hour, and a wider range  *)
(*             of ranks.                                                   *)
(*   SpecInterpolate  one call of interpolate() on keyframes with          *)
(*             non-decreasing times.                                       *)
(*   SpecLayout  one call of a box function of utils.py or card.py on a    *)
(*             box with right >= left and bottom >= top.                   *)
(*   SpecText  one call of text_layout.py try_adding_endline().            *)
(*                                                                         *)
(* Every specification leaves the variables of the others unchanged.       *)
(***************************************************************************)
EXTENDS Integers, Sequences, FiniteSets, TLC

VARIABLES
    \* ---- render(), cli.py 141-186 ----
    pc,            \* the position of render() (and of the interpreter after it)
    last_frame,    \* the argument last_frame
    frame,         \* the loop variable of "for frame in range(last_frame + 1)"
    enc,           \* the encoder child: none, starting, reading, deaf, exited
    rc,            \* its exit status: none, zero, nonzero, sigterm
    stdin_closed,  \* process.stdin.close() has returned
    tmp,           \* the file at tmp_output: absent, stale, partial, complete
    out,           \* the file at output_path: absent, old, partial, complete
    out0,          \* the file at output_path when the job started
    exc,           \* the exception leaving render(): none, Exception, KeyboardInterrupt
    events,        \* history: what render() and the hook did, in order
    \* ---- two jobs, cli.py 151-183 ----
    jobs,
    \* ---- Card, card.py 78-191 ----
    card,
    cframe,
    shown,
    \* ---- one call of a pure function: interpolate.py, utils.py, text_layout.py ----
    call

rvars == <<pc, last_frame, frame, enc, rc, stdin_closed, tmp, out, out0, exc, events>>
jvars == <<jobs>>
cvars == <<card, cframe, shown>>
pvars == <<call>>
vars == <<pc, last_frame, frame, enc, rc, stdin_closed, tmp, out, out0, exc, events,
          jobs, card, cframe, shown, call>>

(***************************************************************************)
(* Bounds of the model.                                                    *)
(***************************************************************************)
\* render() is called with last_frame in 0..MaxLastFrame
MaxLastFrame == 3

\* a destination path has at most MaxPathLen pieces
MaxPathLen == 3

\* ranks are 1..MaxRank
MaxRank == 3

\* the pivot frame animation_start is 0..MaxStart
MaxStart == 50

\* a job renders the frames 0..animation_start + FramesAfter
FramesAfter == 12

\* the ranks of the clock cards are 1..MaxClockRank
MaxClockRank == 5

\* the pivot frame of the clock cards is 0..MaxClockStart
MaxClockStart == 3

\* interpolate() is called with 1..MaxKeys keyframes
MaxKeys == 4

\* keyframe times are 0..MaxTime, queries run from -1/3 to MaxTime + 1/3
MaxTime == 2

\* keyframe values are 0..MaxValue
MaxValue == 1

\* box coordinates are 0, 1/2, .., MaxCoord/2
MaxCoord == 3

\* widths, heights, paddings and gaps are 0, 1/2, .., MaxSize/2
MaxSize == 2

\* texts have 14..MaxTextLen characters
MaxTextLen == 16

(***************************************************************************)
(* render(): the frame-streaming pipeline.                                 *)
(***************************************************************************)
NoFrame == 0 - 1

Ev(e, f) == [e |-> e, f |-> f]

Count(e) == Cardinality({i \in 1..Len(events) : events[i].e = e})

Happened(e) == \E i \in 1..Len(events) : events[i].e = e

\* The frames of the events named e, in the order they happened.
FramesOf(e) ==
    LET F[i \in 0..Len(events)] ==
            IF i = 0 THEN << >>
            ELSE IF events[i].e = e THEN Append(F[i - 1], events[i].f)
            ELSE F[i - 1]
    IN  F[Len(events)]

\* A loop that stops one frame early: range(last_frame).
FrameRange_OneShort(n) == 0..(n - 1)

\* range(last_frame + 1), cli.py 179
FrameRange(n) == 0..n

\* A clean_up that does not look at poll(): it terminates whenever it is called.
PollIsNone_Unchecked(e) == TRUE

\* process.poll() is None: the child has not exited, cli.py 170
PollIsNone(e) == e \in {"starting", "reading", "deaf"}

\* "except Exception" catches an Exception and no other BaseException, cli.py 184
Caught(x) == x = "Exception"

\* clean_up(), cli.py 169-172: what it appends to the history
CleanUpEvents(e) ==
    IF PollIsNone(e)
    THEN <<Ev("clean_up", NoFrame), Ev("terminate", NoFrame), Ev("cleanup_wait", NoFrame)>>
    ELSE <<Ev("clean_up", NoFrame)>>

\* clean_up(): the child after it. terminate() sends SIGTERM and wait() reaps it.
CleanUpEnc(e) == IF PollIsNone(e) THEN "exited" ELSE e

CleanUpRc(e, r) == IF PollIsNone(e) THEN "sigterm" ELSE r

RenderInit ==
    /\ pc = "start"
    /\ last_frame \in 0..MaxLastFrame
    /\ frame = 0
    /\ enc = "none"
    /\ rc = "none"
    /\ stdin_closed = FALSE
    /\ tmp \in {"absent", "stale"}
    /\ out \in {"absent", "old"}
    /\ out0 = out
    /\ exc = "none"
    /\ events = << >>

\* cli.py 151-174: makedirs, run_async (the child starts), atexit.register.
\* run_async(pipe_stdin=True) always gives process.stdin, so the ValueError of
\* cli.py 176-177 is never raised.
Spawn ==
    /\ pc = "start"
    /\ enc' = "starting"
    /\ events' = events \o <<Ev("spawn", NoFrame), Ev("register", NoFrame)>>
    /\ frame' = 0
    /\ pc' = "loop"
    /\ UNCHANGED <<last_frame, rc, stdin_closed, tmp, out, out0, exc, jvars, cvars, pvars>>

\* cli.py 179-180: the next frame of the loop is rendered (card.render_frame)
RenderFrame ==
    /\ pc = "loop"
    /\ frame \in FrameRange(last_frame)
    /\ events' = Append(events, Ev("render", frame))
    /\ pc' = "write"
    /\ UNCHANGED <<last_frame, frame, enc, rc, stdin_closed, tmp, out, out0, exc, jvars, cvars, pvars>>

\* cli.py 180: process.stdin.write returns; it blocks until the child reads
WriteOk ==
    /\ pc = "write"
    /\ enc = "reading"
    /\ events' = Append(events, Ev("write", frame))
    /\ frame' = frame + 1
    /\ pc' = "loop"
    /\ UNCHANGED <<last_frame, enc, rc, stdin_closed, tmp, out, out0, exc, jvars, cvars, pvars>>

\* cli.py 180: process.stdin.write raises (the pipe has no reader any more)
WriteFail ==
    /\ pc = "write"
    /\ enc \in {"deaf", "exited"}
    /\ events' = Append(events, Ev("write_raised", frame))
    /\ exc' = "Exception"
    /\ pc' = "except"
    /\ UNCHANGED <<last_frame, frame, enc, rc, stdin_closed, tmp, out, out0, jvars, cvars, pvars>>

\* cli.py 181: the loop is over, process.stdin.close(). Every write has handed
\* its whole frame to the pipe, so the close has nothing left to flush.
CloseStdin ==
    /\ pc = "loop"
    /\ frame \notin FrameRange(last_frame)
    /\ stdin_closed' = TRUE
    /\ events' = Append(events, Ev("close", NoFrame))
    /\ pc' = "wait"
    /\ UNCHANGED <<last_frame, frame, enc, rc, tmp, out, out0, exc, jvars, cvars, pvars>>

\* A render() that does not wait for the child before it renames.
Wait_NotBlocking ==
    /\ pc = "wait"
    /\ events' = Append(events, Ev("wait", NoFrame))
    /\ pc' = "replace"
    /\ UNCHANGED <<last_frame, frame, enc, rc, stdin_closed, tmp, out, out0, exc, jvars, cvars, pvars>>

\* cli.py 182: process.wait() returns once the child has exited; its result,
\* the exit status, is dropped
Wait ==
    /\ pc = "wait"
    /\ enc = "exited"
    /\ events' = Append(events, Ev("wait", NoFrame))
    /\ pc' = "replace"
    /\ UNCHANGED <<last_frame, frame, enc, rc, stdin_closed, tmp, out, out0, exc, jvars, cvars, pvars>>

\* cli.py 183: os.replace(tmp_output, output_path); FileNotFoundError when
\* there is no file at tmp_output
Replace ==
    /\ pc = "replace"
    /\ IF tmp = "absent"
       THEN /\ exc' = "Exception"
            /\ events' = Append(events, Ev("replace_raised", NoFrame))
            /\ pc' = "except"
            /\ UNCHANGED <<tmp, out>>
       ELSE /\ out' = tmp
            /\ tmp' = "absent"
            /\ events' = Append(events, Ev("rename", NoFrame))
            /\ pc' = "returned"
            /\ UNCHANGED exc
    /\ UNCHANGED <<last_frame, frame, enc, rc, stdin_closed, out0, jvars, cvars, pvars>>

\* A handler that re-raises without calling clean_up().
ExceptHandler_NoCleanUp ==
    /\ pc = "except"
    /\ Caught(exc)
    /\ pc' = "raised"
    /\ UNCHANGED <<last_frame, frame, enc, rc, stdin_closed, tmp, out, out0, exc, events, jvars, cvars, pvars>>

\* cli.py 184-186: except Exception: clean_up(); raise e
ExceptHandler ==
    /\ pc = "except"
    /\ Caught(exc)
    /\ events' = events \o CleanUpEvents(enc)
    /\ enc' = CleanUpEnc(enc)
    /\ rc' = CleanUpRc(enc, rc)
    /\ pc' = "raised"
    /\ UNCHANGED <<last_frame, frame, stdin_closed, tmp, out, out0, exc, jvars, cvars, pvars>>

\* A BaseException that "except Exception" does not catch (KeyboardInterrupt,
\* SystemExit) leaves the try block, cli.py 175-184: no handler runs
Interrupt ==
    /\ pc \in {"loop", "write", "wait", "replace"}
    /\ exc' = "KeyboardInterrupt"
    /\ ~Caught(exc')
    /\ events' = Append(events, Ev("interrupt", NoFrame))
    /\ pc' = "interrupted"
    /\ UNCHANGED <<last_frame, frame, enc, rc, stdin_closed, tmp, out, out0, jvars, cvars, pvars>>

\* cli.py 174: the interpreter exits and runs the registered clean_up
AtExit ==
    /\ pc \in {"returned", "raised", "interrupted"}
    /\ Happened("register")
    /\ events' = events \o <<Ev("atexit", NoFrame)>> \o CleanUpEvents(enc)
    /\ enc' = CleanUpEnc(enc)
    /\ rc' = CleanUpRc(enc, rc)
    /\ pc' = "exited"
    /\ UNCHANGED <<last_frame, frame, stdin_closed, tmp, out, out0, exc, jvars, cvars, pvars>>

(***************************************************************************)
(* The encoder child (ffmpeg, cli.py 155-167): it opens its output         *)
(* (overwrite_output: an existing file is truncated) before it reads the   *)
(* first frame, may stop reading its input while still running, ends with  *)
(* status 0 once its input is over, and may fail at any time. A frame is   *)
(* larger than a pipe's buffer: a write returns only while the child reads *)
(* and raises once the child has closed its end.                           *)
(***************************************************************************)
EncoderOpen ==
    /\ enc = "starting"
    /\ enc' = "reading"
    /\ tmp' = "partial"
    /\ UNCHANGED <<pc, last_frame, frame, rc, stdin_closed, out, out0, exc, events, jvars, cvars, pvars>>

EncoderDeaf ==
    /\ enc = "reading"
    /\ enc' = "deaf"
    /\ UNCHANGED <<pc, last_frame, frame, rc, stdin_closed, tmp, out, out0, exc, events, jvars, cvars, pvars>>

EncoderFinish ==
    /\ \/ enc = "reading" /\ stdin_closed
       \/ enc = "deaf"
    /\ enc' = "exited"
    /\ rc' = "zero"
    /\ tmp' = "complete"
    /\ UNCHANGED <<pc, last_frame, frame, stdin_closed, out, out0, exc, events, jvars, cvars, pvars>>

EncoderCrash ==
    /\ enc \in {"starting", "reading", "deaf"}
    /\ enc' = "exited"
    /\ rc' = "nonzero"
    /\ UNCHANGED <<pc, last_frame, frame, stdin_closed, tmp, out, out0, exc, events, jvars, cvars, pvars>>

(***************************************************************************)
(* Claims about render().                                                  *)
(***************************************************************************)
\* <<0, 1, ..., n - 1>>
UpTo(n) == [i \in 1..n |-> i - 1]

\* The place of the first event named e (0 when there is none).
Pos(e) == IF Happened(e) THEN CHOOSE i \in 1..Len(events) :
                                   /\ events[i].e = e
                                   /\ \A j \in 1..(i - 1) : events[j].e # e
          ELSE 0

\* The job is over: render() returned or raised, or the interpreter has exited.
JobOver == pc \in {"returned", "raised", "exited"}

\* C1: if the write of a frame k raises, the encoder is terminated and awaited
\* (or has already exited) by the time the exception leaves render(), the
\* temporary file is never renamed to output_path (the file there is the one
\* from before the job, or none), no frame after k is rendered or written,
\* and the exception propagates to the caller.
C1_WriteFailureAborts ==
    Happened("write_raised") =>
        LET k == events[Pos("write_raised")].f
        IN  /\ Count("write_raised") = 1
            /\ ~Happened("rename")
            /\ out = out0
            /\ FramesOf("render") = UpTo(k + 1)
            /\ FramesOf("write") = UpTo(k)
            /\ ~Happened("close")
            /\ exc = "Exception"
            /\ pc \in {"except", "raised", "exited"}
            /\ pc \in {"raised", "exited"} =>
                  /\ enc = "exited"
                  /\ Count("clean_up") >= 1
                  /\ Count("terminate") = Count("cleanup_wait")
                  /\ Happened("terminate") <=> rc = "sigterm"

\* C1's case: the write of frame 1 raised while the encoder was still running,
\* the handler terminated it and the exception has left render().
C1_Witness ==
    /\ pc = "raised"
    /\ Happened("write_raised")
    /\ events[Pos("write_raised")].f = 1
    /\ Happened("terminate")

\* C2: os.replace runs, and render() returns normally, only when the encoder
\* exited with status 0; a non-zero exit is a failure of the job.
C2_PublishOnlyOnEncoderSuccess ==
    /\ Happened("rename") => rc = "zero"
    /\ pc = "returned" => rc = "zero"

\* C3: when every write succeeds the order is: all frame writes, stdin close,
\* encoder wait returns, rename. output_path is not touched before the rename,
\* which comes after the encoder has exited; the rename happens exactly once
\* in a job that ran to its end, and no temporary file remains after it.
C3_PublishAfterExit ==
    /\ Count("rename") <= 1
    /\ ~Happened("rename") => out = out0
    /\ Happened("rename") =>
          /\ enc = "exited"
          /\ tmp = "absent"
          /\ out \in {"partial", "complete"}
          /\ FramesOf("write") = UpTo(last_frame + 1)
          /\ \A i \in 1..Len(events) : events[i].e = "write" => i < Pos("close")
          /\ Pos("close") < Pos("wait")
          /\ Pos("wait") < Pos("rename")
          /\ Pos("rename") = Pos("wait") + 1
    /\ (JobOver /\ ~Happened("interrupt") /\ Count("write") = last_frame + 1) =>
          Count("rename") = 1

\* C3's case: all frames of a job of three frames written, the rename done.
C3_Witness ==
    /\ pc = "returned"
    /\ last_frame = 2
    /\ Count("write") = 3
    /\ Happened("rename")
    /\ out = "complete"

\* C4: the encoder is spawned once; frames are written in the order
\* 0, 1, ..., and frame i+1 is rendered only after the write of frame i has
\* returned; a successful job has exactly last_frame+1 writes, one close and
\* one wait, and terminate() is never called, not by the exit hook either.
C4_Lifecycle ==
    /\ Count("spawn") = (IF pc = "start" THEN 0 ELSE 1)
    /\ FramesOf("write") = UpTo(Count("write"))
    /\ FramesOf("render") = UpTo(Count("render"))
    /\ Count("write") <= last_frame + 1
    /\ Count("render") \in {Count("write"), Count("write") + 1}
    /\ \A i \in 1..Len(events) :
          (events[i].e = "render" /\ events[i].f > 0) =>
              \E j \in 1..(i - 1) : events[j] = Ev("write", events[i].f - 1)
    /\ Count("close") <= 1
    /\ Count("wait") <= 1
    /\ Happened("rename") =>
          /\ Count("write") = last_frame + 1
          /\ Count("close") = 1
          /\ Count("wait") = 1
          /\ Count("terminate") = 0
          /\ Count("cleanup_wait") = 0

\* C4's case: a successful job of four frames after the exit hook has run.
C4_Witness ==
    /\ pc = "exited"
    /\ Happened("rename")
    /\ last_frame = 3
    /\ Count("write") = 4
    /\ Count("clean_up") = 1

\* C5: over any sequence of clean_up calls (the handler's, then the exit
\* hook's) a still-running child is terminated and awaited exactly once, and
\* a call made after the child has exited does nothing.
C5_CleanUpIdempotent ==
    /\ [](/\ Count("terminate") <= 1
          /\ Count("cleanup_wait") = Count("terminate")
          /\ pc \in {"raised", "exited"} => enc = "exited")
    /\ [][Count("clean_up")' > Count("clean_up") =>
            IF enc = "exited"
            THEN /\ Count("terminate")' = Count("terminate")
                 /\ Count("cleanup_wait")' = Count("cleanup_wait")
                 /\ enc' = enc
                 /\ rc' = rc
            ELSE /\ Count("terminate")' = Count("terminate") + 1
                 /\ Count("cleanup_wait")' = Count("cleanup_wait") + 1
                 /\ enc' = "exited"]_vars

\* C5's case: clean_up ran twice, in the handler (where it terminated the
\* running child) and again as the exit hook.
C5_Witness ==
    /\ pc = "exited"
    /\ Count("clean_up") = 2
    /\ Count("terminate") = 1

(***************************************************************************)
(* Two render jobs, each its own process running render(), on one file     *)
(* system. A path is the sequence of its pieces: the separator "/", the    *)
(* letter a, and the four letters tmp_ that render() puts before the base  *)
(* name. No piece is the beginning of another one, so two sequences are    *)
(* equal exactly when the strings they spell are.                          *)
(***************************************************************************)
PathPieces == {"/", "a", "tmp_"}

\* Destination paths: normalised (no empty component, no trailing separator),
\* so that different paths name different files.
DestinationPaths ==
    {p \in UNION {[1..n -> PathPieces] : n \in 1..MaxPathLen} :
        /\ p[Len(p)] # "/"
        /\ \A i \in 1..(Len(p) - 1) : ~(p[i] = "/" /\ p[i + 1] = "/")}

\* p.rfind("/") + 1, as in posixpath.split
AfterLastSep(p) ==
    IF \E i \in 1..Len(p) : p[i] = "/"
    THEN CHOOSE i \in 1..Len(p) : p[i] = "/" /\ \A j \in (i + 1)..Len(p) : p[j] # "/"
    ELSE 0

\* os.path.basename(output_path), cli.py 151
Basename(p) == SubSeq(p, AfterLastSep(p) + 1, Len(p))

RStripSep(h) ==
    IF \A i \in 1..Len(h) : h[i] = "/"
    THEN h
    ELSE SubSeq(h, 1, CHOOSE n \in 1..Len(h) :
                          h[n] # "/" /\ \A j \in (n + 1)..Len(h) : h[j] = "/")

\* os.path.dirname(output_path), cli.py 152
Dirname(p) == RStripSep(SubSeq(p, 1, AfterLastSep(p)))

\* os.path.join(a, b) for a b that does not start with the separator, cli.py 153
Join(a, b) ==
    IF a = << >> \/ a[Len(a)] = "/" THEN a \o b ELSE a \o <<"/">> \o b

\* tmp_output, cli.py 151-153
TmpOutput(output_path) ==
    Join(Dirname(output_path), <<"tmp_">> \o Basename(output_path))

JobIds == {1, 2}

JobsInit ==
    \E p1 \in DestinationPaths, p2 \in DestinationPaths :
        /\ p1 # p2
        /\ jobs = [j \in JobIds |->
                     [output_path |-> IF j = 1 THEN p1 ELSE p2,
                      jpc |-> "start",
                      touched |-> {}]]

\* cli.py 154: os.makedirs("") raises FileNotFoundError before anything is spawned
JobMakedirsRaises(j) ==
    /\ jobs[j].jpc = "start"
    /\ Dirname(jobs[j].output_path) = << >>
    /\ jobs' = [jobs EXCEPT ![j].jpc = "raised"]
    /\ UNCHANGED <<rvars, cvars, pvars>>

\* cli.py 154-167: the encoder is spawned and opens tmp_output for writing
JobSpawn(j) ==
    /\ jobs[j].jpc = "start"
    /\ Dirname(jobs[j].output_path) # << >>
    /\ jobs' = [jobs EXCEPT ![j].jpc = "streaming",
                            ![j].touched = @ \cup {TmpOutput(jobs[j].output_path)}]
    /\ UNCHANGED <<rvars, cvars, pvars>>

\* cli.py 183: os.replace(tmp_output, output_path)
JobReplace(j) ==
    /\ jobs[j].jpc = "streaming"
    /\ jobs' = [jobs EXCEPT ![j].jpc = "returned",
                            ![j].touched = @ \cup {TmpOutput(jobs[j].output_path),
                                                   jobs[j].output_path}]
    /\ UNCHANGED <<rvars, cvars, pvars>>

\* cli.py 184-186: the job fails; tmp_output stays where it is
JobRaise(j) ==
    /\ jobs[j].jpc = "streaming"
    /\ jobs' = [jobs EXCEPT ![j].jpc = "raised"]
    /\ UNCHANGED <<rvars, cvars, pvars>>

\* C6: two concurrent jobs with different destination paths never touch a
\* common file: the paths one job writes or renames (its temporary path and
\* its destination) are none of the paths the other job writes or renames.
C6_JobsTouchDisjointFiles ==
    jobs[1].output_path # jobs[2].output_path =>
        jobs[1].touched \cap jobs[2].touched = {}

(***************************************************************************)
(* Numbers. Python computes interpolate() in floats; the model computes it *)
(* in exact fractions <<numerator, denominator>> in lowest terms with a    *)
(* positive denominator. The values the card reads at and outside the      *)
(* keyframes (0, 1, the ranks) are the same in both.                       *)
(***************************************************************************)
Abs(x) == IF x < 0 THEN 0 - x ELSE x

RECURSIVE Gcd(_, _)
Gcd(a, b) == IF b = 0 THEN a ELSE Gcd(b, a % b)

Norm(n, d) ==
    LET g == Gcd(Abs(n), Abs(d))
        sg == IF d < 0 THEN 0 - 1 ELSE 1
    IN  <<(sg * n) \div g, (sg * d) \div g>>

R(n) == <<n, 1>>

RAdd(a, b) == Norm(a[1] * b[2] + b[1] * a[2], a[2] * b[2])

RSub(a, b) == Norm(a[1] * b[2] - b[1] * a[2], a[2] * b[2])

RMul(a, b) == Norm(a[1] * b[1], a[2] * b[2])

RDiv(a, b) == Norm(a[1] * b[2], a[2] * b[1])

RLe(a, b) == a[1] * b[2] <= b[1] * a[2]

\* round(x) of Python: to the nearest integer, a tie to the even one, card.py 155
Round(x) ==
    LET q == x[1] \div x[2]
        r == x[1] - q * x[2]
    IN  IF 2 * r < x[2] THEN q
        ELSE IF 2 * r > x[2] THEN q + 1
        ELSE IF q % 2 = 0 THEN q ELSE q + 1

(***************************************************************************)
(* interpolate(), interpolate.py 11-34.                                    *)
(***************************************************************************)
\* math.cos(j * pi / 30) in millionths, j = 0..30, interpolate.py 31
CosPiTable ==
    <<1000000, 994522, 978148, 951057, 913545, 866025,
      809017, 743145, 669131, 587785, 500000, 406737,
      309017, 207912, 104528, 0, -104528, -207912,
      -309017, -406737, -500000, -587785, -669131, -743145,
      -809017, -866025, -913545, -951057, -978148, -994522,
      -1000000>>

\* math.cos(t * math.pi) for 0 <= t <= 1, to the table's step and precision
CosPi(t) == <<CosPiTable[((30 * t[1]) \div t[2]) + 1], 1000000>>

\* A quadratic easing that is the ease-in half 2*t*t over the whole segment.
Ease_QuadInOnly(t, easing) ==
    IF easing = "easeInOutQuad"
    THEN RMul(R(2), RMul(t, t))
    ELSE IF easing = "easeInOutSin"
    THEN RSub(<<1, 2>>, RMul(<<1, 2>>, CosPi(t)))
    ELSE t

\* interpolate.py 28-31: the easing of the fraction t
Ease(t, easing) ==
    IF easing = "easeInOutQuad"
    THEN RMul(RMul(t, t), RSub(R(3), RMul(R(2), t)))
    ELSE IF easing = "easeInOutSin"
    THEN RSub(<<1, 2>>, RMul(<<1, 2>>, CosPi(t)))
    ELSE t

\* interpolate.py 25-26: the segments i (from 1) with times[i] <= value <= times[i+1]
Brackets(value, range_values) ==
    {i \in 1..(Len(range_values) - 1) :
        RLe(range_values[i], value) /\ RLe(value, range_values[i + 1])}

Min(S) == CHOOSE x \in S : \A y \in S : x <= y

\* A check of the upper end that is missing: a value beyond the last keyframe
\* reaches the loop, finds no segment and raises.
Raises_NoUpperClamp(value, range_values, output_range) ==
    IF Len(range_values) # Len(output_range) THEN "ValueError"
    ELSE IF Len(range_values) = 0 THEN "IndexError"
    ELSE IF RLe(value, range_values[1]) THEN "none"
    ELSE IF Brackets(value, range_values) = {} THEN "ValueError"
    ELSE IF range_values[Min(Brackets(value, range_values)) + 1]
            = range_values[Min(Brackets(value, range_values))]
    THEN "ZeroDivisionError"
    ELSE "none"

\* interpolate.py 17-18, 20-27, 34: the exception interpolate() raises, or none
Raises(value, range_values, output_range) ==
    IF Len(range_values) # Len(output_range) THEN "ValueError"
    ELSE IF Len(range_values) = 0 THEN "IndexError"
    ELSE IF RLe(value, range_values[1]) THEN "none"
    ELSE IF RLe(range_values[Len(range_values)], value) THEN "none"
    ELSE IF Brackets(value, range_values) = {} THEN "ValueError"
    ELSE IF range_values[Min(Brackets(value, range_values)) + 1]
            = range_values[Min(Brackets(value, range_values))]
    THEN "ZeroDivisionError"
    ELSE "none"

\* interpolate.py 11-34. The result is a fraction, or the name of the exception.
Interpolate(value, range_values, output_range, easing) ==
    IF Raises(value, range_values, output_range) # "none"
    THEN Raises(value, range_values, output_range)
    ELSE IF RLe(value, range_values[1]) THEN output_range[1]
    ELSE IF RLe(range_values[Len(range_values)], value)
    THEN output_range[Len(output_range)]
    ELSE LET i == Min(Brackets(value, range_values))
             t == RDiv(RSub(value, range_values[i]),
                       RSub(range_values[i + 1], range_values[i]))
         IN  RAdd(output_range[i],
                  RMul(Ease(t, easing),
                       RSub(output_range[i + 1], output_range[i])))

\* Keyframe times: non-decreasing, one to MaxKeys of them, whole numbers.
KeyTimes ==
    {s \in UNION {[1..n -> 0..MaxTime] : n \in 1..MaxKeys} :
        \A i \in 1..(Len(s) - 1) : s[i] <= s[i + 1]}

\* The calls interpolate(value, range_values, output_range, easing) of the
\* model: as many values as times, a query at every third from before the
\* first possible time to after the last.
InterpolateInit ==
    \E ts \in KeyTimes :
        \E vs \in [1..Len(ts) -> 0..MaxValue] :
            \E k \in (0 - 1)..(3 * MaxTime + 1) :
                \E e \in {"none", "easeInOutQuad", "easeInOutSin"} :
                    call = [fn |-> "interpolate",
                            value |-> Norm(k, 3),
                            range_values |-> [i \in 1..Len(ts) |-> R(ts[i])],
                            output_range |-> [i \in 1..Len(ts) |-> R(vs[i])],
                            easing |-> e,
                            done |-> FALSE,
                            raised |-> "none",
                            result |-> <<>>]

\* interpolate.py 11-34: the call returns or raises
CallInterpolate ==
    /\ call.fn = "interpolate"
    /\ ~call.done
    /\ call' = [call EXCEPT
                  !.done = TRUE,
                  !.raised = Raises(call.value, call.range_values, call.output_range),
                  !.result = IF Raises(call.value, call.range_values, call.output_range)
                                = "none"
                             THEN Interpolate(call.value, call.range_values,
                                              call.output_range, call.easing)
                             ELSE <<>>]
    /\ UNCHANGED <<rvars, jvars, cvars>>

(***************************************************************************)
(* Boxes, utils.py 18-64 and card.py 60-75. A box is <<left, top, right,   *)
(* bottom>>, each a fraction.                                              *)
(***************************************************************************)
\* math.ceil(x), utils.py 27
Ceil(x) == 0 - ((0 - x[1]) \div x[2])

\* math.floor(x), utils.py 27
Floor(x) == x[1] \div x[2]

\* utils.py 21-23: dimensions
Dimensions(box) == <<RSub(box[3], box[1]), RSub(box[4], box[2])>>

\* utils.py 26-27: place_grid
PlaceGrid(box) == <<R(Ceil(box[1])), R(Ceil(box[2])), R(Floor(box[3])), R(Floor(box[4]))>>

\* utils.py 38-43: center_anchor
CenterAnchor(box, dimensions) ==
    LET width == dimensions[1]
        height == dimensions[2]
        archor_left == RDiv(RSub(RAdd(box[1], box[3]), width), R(2))
        archor_top == RDiv(RSub(RAdd(box[2], box[4]), height), R(2))
    IN  <<archor_left, archor_top, RAdd(archor_left, width), RAdd(archor_top, height)>>

\* utils.py 46-54: place_above
PlaceAbove(box, dimensins, gap) ==
    LET width == dimensins[1]
        height == dimensins[2]
    IN  <<RDiv(RSub(RAdd(box[1], box[3]), width), R(2)),
          RSub(RSub(box[2], height), gap),
          RDiv(RAdd(RAdd(box[1], box[3]), width), R(2)),
          RSub(box[2], gap)>>

\* utils.py 57-64: place_below
PlaceBelow(box, dimensins, gap) ==
    LET width == dimensins[1]
        height == dimensins[2]
    IN  <<RDiv(RSub(RAdd(box[1], box[3]), width), R(2)),
          RAdd(box[4], gap),
          RDiv(RAdd(RAdd(box[1], box[3]), width), R(2)),
          RAdd(RAdd(box[4], height), gap)>>

\* card.py 60-66: split_horizontal, <<left_box, right_box>>
SplitHorizontal(box, width, padding, gap) ==
    LET left_box == <<RAdd(box[1], padding), box[2],
                      RAdd(RAdd(box[1], padding), width), box[4]>>
        right_box == <<RAdd(left_box[3], gap), box[2], RSub(box[3], padding), box[4]>>
    IN  <<left_box, right_box>>

\* card.py 69-75: split_vertical, <<top_box, bottom_box>>
SplitVertical(box, height, padding, gap) ==
    LET top_box == <<box[1], RAdd(box[2], padding), box[3],
                     RAdd(RAdd(box[2], padding), height)>>
        bottom_box == <<box[1], RAdd(top_box[4], gap), box[3], RSub(box[4], padding)>>
    IN  <<top_box, bottom_box>>

\* Coordinates of the model: the half steps 0, 1/2, .., MaxCoord/2.
Coords == {Norm(k, 2) : k \in 0..MaxCoord}

\* Widths, heights, paddings and gaps of the model: 0, 1/2, .., MaxSize/2.
Sizes == {Norm(k, 2) : k \in 0..MaxSize}

\* utils.py 18: Box, with right >= left and bottom >= top
Boxes ==
    {b \in Coords \X Coords \X Coords \X Coords : RLe(b[1], b[3]) /\ RLe(b[2], b[4])}

\* One call of a layout function on a box, with non-negative arguments.
LayoutInit ==
    \E fn \in {"place_grid", "center_anchor", "place_above", "place_below",
               "split_horizontal", "split_vertical"} :
        \E box \in Boxes :
            \E width \in Sizes, height \in Sizes, padding \in Sizes, gap \in Sizes :
                call = [fn |-> fn, box |-> box, width |-> width, height |-> height,
                        padding |-> padding, gap |-> gap, done |-> FALSE,
                        result |-> <<>>]

\* The call returns: result is the sequence of the boxes returned.
Returns(fn, boxes) ==
    /\ call.fn = fn
    /\ ~call.done
    /\ call' = [call EXCEPT !.done = TRUE, !.result = boxes]
    /\ UNCHANGED <<rvars, jvars, cvars>>

CallPlaceGrid == Returns("place_grid", <<PlaceGrid(call.box)>>)

CallCenterAnchor ==
    Returns("center_anchor", <<CenterAnchor(call.box, <<call.width, call.height>>)>>)

CallPlaceAbove ==
    Returns("place_above", <<PlaceAbove(call.box, <<call.width, call.height>>, call.gap)>>)

CallPlaceBelow ==
    Returns("place_below", <<PlaceBelow(call.box, <<call.width, call.height>>, call.gap)>>)

CallSplitHorizontal ==
    Returns("split_horizontal",
            SplitHorizontal(call.box, call.width, call.padding, call.gap))

CallSplitVertical ==
    Returns("split_vertical",
            SplitVertical(call.box, call.height, call.padding, call.gap))

(***************************************************************************)
(* try_adding_endline(), text_layout.py 53-68. A text is a sequence of     *)
(* characters; the index i of the code counts from 0.                      *)
(***************************************************************************)
\* A loop that takes a space as near to the middle as the best one so far:
\* the last of two equally near spaces wins.
RECURSIVE Scan_LastOnTies(_, _, _, _)
Scan_LastOnTies(text, i, middle, best_position) ==
    IF i >= Len(text) THEN best_position
    ELSE Scan_LastOnTies(text, i + 1, middle,
                         IF /\ text[i + 1] = " "
                            /\ Abs(i - middle) <= Abs(best_position - middle)
                         THEN i ELSE best_position)

\* text_layout.py 60-63: the loop from index i on, best_position so far
RECURSIVE Scan(_, _, _, _)
Scan(text, i, middle, best_position) ==
    IF i >= Len(text) THEN best_position
    ELSE Scan(text, i + 1, middle,
              IF /\ text[i + 1] = " "
                 /\ Abs(i - middle) < Abs(best_position - middle)
              THEN i ELSE best_position)

\* text_layout.py 53-68: try_adding_endline, the pair it returns
TryAddingEndline(text) ==
    IF Len(text) < 15 THEN [multiline |-> FALSE, text |-> text]
    ELSE LET middle == Len(text) \div 2
             best_position == Scan(text, 0, middle, 0 - 1)
         IN  IF best_position = 0 - 1 THEN [multiline |-> FALSE, text |-> text]
             ELSE [multiline |-> TRUE,
                   text |-> SubSeq(text, 1, best_position) \o <<"\n">>
                            \o SubSeq(text, best_position + 2, Len(text))]

\* Texts of letters and spaces, from one character short of the length at
\* which a line break is tried to MaxTextLen characters.
Texts == UNION {[1..n -> {"a", " "}] : n \in 14..MaxTextLen}

TextInit ==
    \E text \in Texts :
        call = [fn |-> "try_adding_endline", text |-> text, done |-> FALSE,
                result |-> [multiline |-> FALSE, text |-> <<>>]]

\* text_layout.py 53-68: the call returns
CallTryAddingEndline ==
    /\ call.fn = "try_adding_endline"
    /\ ~call.done
    /\ call' = [call EXCEPT !.done = TRUE, !.result = TryAddingEndline(call.text)]
    /\ UNCHANGED <<rvars, jvars, cvars>>

(***************************************************************************)
(* Card, card.py 78-191: what a frame shows, as a function of the card and *)
(* the frame number.                                                       *)
(***************************************************************************)
\* A success schedule centred on the pivot frame: A-5 to A+5.
Rank_PivotMidway(c, f) ==
    Round(IF c.success
          THEN Interpolate(R(f),
                           <<R(c.animation_start - 5), R(c.animation_start + 5)>>,
                           <<R(c.rank_before), R(c.rank_after)>>, "none")
          ELSE Interpolate(R(f),
                           <<R(c.animation_start - 15), R(c.animation_start),
                             R(c.animation_start + 6)>>,
                           <<R(c.rank_before), R(1), R(c.rank_before)>>, "none"))

\* A rank that spikes to rank_after, not to 1, on a failure.
Rank_SpikesToRankAfter(c, f) ==
    Round(IF c.success
          THEN Interpolate(R(f),
                           <<R(c.animation_start - 15), R(c.animation_start + 5)>>,
                           <<R(c.rank_before), R(c.rank_after)>>, "none")
          ELSE Interpolate(R(f),
                           <<R(c.animation_start - 15), R(c.animation_start),
                             R(c.animation_start + 6)>>,
                           <<R(c.rank_before), R(c.rank_after), R(c.rank_before)>>, "none"))

\* card.py 155-171: rank
Rank(c, f) ==
    Round(IF c.success
          THEN Interpolate(R(f),
                           <<R(c.animation_start - 15), R(c.animation_start + 5)>>,
                           <<R(c.rank_before), R(c.rank_after)>>, "none")
          ELSE Interpolate(R(f),
                           <<R(c.animation_start - 15), R(c.animation_start),
                             R(c.animation_start + 6)>>,
                           <<R(c.rank_before), R(1), R(c.rank_before)>>, "none"))

\* A badge whose success schedule ends at A+6, the end of the failure schedule.
PlacePosition_EndsLate(c, f) ==
    IF c.success
    THEN Interpolate(R(f),
                     <<R(c.animation_start - 15), R(c.animation_start + 6)>>,
                     <<R(1), R(0)>>, "easeInOutQuad")
    ELSE Interpolate(R(f),
                     <<R(c.animation_start - 15), R(c.animation_start),
                       R(c.animation_start + 6)>>,
                     <<R(1), <<7, 10>>, R(1)>>, "easeInOutSin")

\* card.py 173-191: place_position, the badge offset
PlacePosition(c, f) ==
    IF c.success
    THEN Interpolate(R(f),
                     <<R(c.animation_start - 15), R(c.animation_start + 5)>>,
                     <<R(1), R(0)>>, "easeInOutQuad")
    ELSE Interpolate(R(f),
                     <<R(c.animation_start - 15), R(c.animation_start),
                       R(c.animation_start + 6)>>,
                     <<R(1), <<7, 10>>, R(1)>>, "easeInOutSin")

\* A blink between the pending colour and the colour of the outcome.
ColorAnimation_BlinksOutcome(c, f) ==
    LET blink_duration == 6
        cycle == <<"yellow", IF c.success THEN "green" ELSE "red">>
    IN  IF f >= c.animation_start
        THEN (IF c.success THEN "green" ELSE "red")
        ELSE IF f < c.animation_start - 8 * blink_duration THEN "yellow"
        ELSE cycle[(((c.animation_start - f) \div blink_duration) % Len(cycle)) + 1]

\* A colour that resolves one frame late: frame > animation_start.
ColorAnimation_ResolvesLate(c, f) ==
    LET blink_duration == 6
        cycle == <<"yellow", "green">>
    IN  IF f > c.animation_start
        THEN (IF c.success THEN "green" ELSE "red")
        ELSE IF f < c.animation_start - 8 * blink_duration THEN "yellow"
        ELSE cycle[(((c.animation_start - f) \div blink_duration) % Len(cycle)) + 1]

\* card.py 129-141: color_animation; the colours by their names in colors.py
ColorAnimation(c, f) ==
    LET blink_duration == 6
        cycle == <<"yellow", "green">>
    IN  IF f >= c.animation_start
        THEN (IF c.success THEN "green" ELSE "red")
        ELSE IF f < c.animation_start - 8 * blink_duration THEN "yellow"
        ELSE cycle[(((c.animation_start - f) \div blink_duration) % Len(cycle)) + 1]

\* str.rjust(width), card.py 125
RJust(s, width) ==
    IF Len(s) >= width THEN s ELSE [i \in 1..(width - Len(s)) |-> " "] \o s

\* card.py 123: outcome_states, each a sequence of characters
OutcomeStates ==
    << <<" ", " ", " ">>, <<".", " ", " ">>, <<".", ".", " ">>,
       <<" ", ".", ".">>, <<" ", " ", ".">> >>

\* A status that shows the outcome from the pivot frame on, not from A+3.
OutcomeAnimation_AtPivot(c, f) ==
    LET frame_duration == 6
    IN  IF f >= c.animation_start
        THEN RJust(c.outcome, Len(OutcomeStates[1]))
        ELSE OutcomeStates[((f \div frame_duration) % Len(OutcomeStates)) + 1]

\* card.py 121-127: outcome_animation
OutcomeAnimation(c, f) ==
    LET frame_duration == 6
    IN  IF f >= c.animation_start + 3
        THEN RJust(c.outcome, Len(OutcomeStates[1]))
        ELSE OutcomeStates[((f \div frame_duration) % Len(OutcomeStates)) + 1]

\* int(x) of Python on a float: the fraction is cut off, towards zero, card.py 116
RTrunc(x) == IF x[1] < 0 THEN 0 - ((0 - x[1]) \div x[2]) ELSE x[1] \div x[2]

\* x % m of Python for m > 0: x - floor(x / m) * m, never negative, card.py 117
RMod(x, m) ==
    LET q == RDiv(x, m)
    IN  RSub(x, RMul(R(q[1] \div q[2]), m))

\* card.py 115: realtime, in milliseconds
Realtime(c, f) ==
    RAdd(R(c.time), RMul(RDiv(R(Min({f - c.animation_start, 0})), R(c.fps)), R(1000)))

\* card.py 116-118: hours, minutes, seconds
ClockParts(c, f) ==
    LET realtime == Realtime(c, f)
    IN  [hours |-> RTrunc(RDiv(realtime, R(60 * 60 * 1000))),
         minutes |-> RTrunc(RDiv(RMod(realtime, R(60 * 60 * 1000)), R(60 * 1000))),
         seconds |-> RTrunc(RDiv(RMod(realtime, R(60 * 1000)), R(1000)))]

\* str(n) for n >= 0, a sequence of characters
RECURSIVE Str(_)
Str(n) ==
    LET digits == <<"0", "1", "2", "3", "4", "5", "6", "7", "8", "9">>
    IN  IF n < 10 THEN <<digits[n + 1]>> ELSE Str(n \div 10) \o <<digits[(n % 10) + 1]>>

\* f"{n:02d}", card.py 119: at least two characters, the sign counted, zeros added
Format02d(n) ==
    IF n < 0 THEN <<"-">> \o Str(0 - n)
    ELSE IF n < 10 THEN <<"0">> \o Str(n)
    ELSE Str(n)

\* card.py 119: f"{hours:02d}:{minutes:02d}:{seconds:02d}"
ClockString(hours, minutes, seconds) ==
    Format02d(hours) \o <<":">> \o Format02d(minutes) \o <<":">> \o Format02d(seconds)

\* card.py 114-119: time_to_string
TimeToString(c, f) ==
    LET parts == ClockParts(c, f)
    IN  ClockString(parts.hours, parts.minutes, parts.seconds)

\* card.py 143-269: what render_frame(frame) draws that depends on the frame
Shown(c, f) ==
    [rank |-> Rank(c, f),
     place_position |-> PlacePosition(c, f),
     color |-> ColorAnimation(c, f),
     status |-> OutcomeAnimation(c, f),
     time |-> TimeToString(c, f)]

\* Outcome codes of one, two and four characters.
Outcomes == { <<"F">>, <<"A", "C">>, <<"F", "A", "I", "L">> }

\* Card(...), cli.py 208-227: the fields the animation reads
Cards ==
    [success : BOOLEAN,
     rank_before : 1..MaxRank,
     rank_after : 1..MaxRank,
     outcome : Outcomes,
     animation_start : 0..MaxStart,
     time : {5400000},
     fps : {30}]

\* Cards for the clock and the rank at the pivot: a wider range of ranks, a
\* short lead before the pivot, elapsed times around zero, a minute and an
\* hour, and frame rates that give whole and fractional milliseconds.
ClockCards ==
    [success : {TRUE},
     rank_before : 1..MaxClockRank,
     rank_after : 1..MaxClockRank,
     outcome : {<<"A", "C">>},
     animation_start : 0..MaxClockStart,
     time : {0, 1000, 2500, 59000, 3599000, 3600000, 3661000},
     fps : {1, 3}]

CardInit ==
    /\ card \in Cards
    /\ cframe = 0
    /\ shown = Shown(card, 0)

\* cli.py 179-180: the frames are rendered in increasing order
CardNextFrame ==
    /\ cframe < card.animation_start + FramesAfter
    /\ cframe' = cframe + 1
    /\ shown' = Shown(card, cframe')
    /\ UNCHANGED <<card, rvars, jvars, pvars>>

(***************************************************************************)
(* Claims about the card animator.                                         *)
(***************************************************************************)
\* The card of the end-to-end scenarios: ranks 100 -> 1, pivot frame 900.
ScenarioCard(success) ==
    [success |-> success, rank_before |-> 100, rank_after |-> 1,
     outcome |-> <<"A", "C">>, animation_start |-> 900, time |-> 5400000, fps |-> 30]

\* C7: on a success, every frame f <= A-15 shows badge offset 1 and rank
\* rank_before, every frame f >= A+5 shows badge offset 0 and rank rank_after;
\* with ranks 100 -> 1 and A = 900, frame 885 gives offset 1 and rank 100 and
\* frame 905 gives offset 0 and rank 1.
C7_SuccessEndpoints ==
    /\ card.success =>
          /\ cframe <= card.animation_start - 15 =>
                shown.place_position = R(1) /\ shown.rank = card.rank_before
          /\ cframe >= card.animation_start + 5 =>
                shown.place_position = R(0) /\ shown.rank = card.rank_after
    /\ PlacePosition(ScenarioCard(TRUE), 885) = R(1)
    /\ Rank(ScenarioCard(TRUE), 885) = 100
    /\ PlacePosition(ScenarioCard(TRUE), 905) = R(0)
    /\ Rank(ScenarioCard(TRUE), 905) = 1

\* C7's case: a successful card 3 -> 1 at the frame A+5 where the badge has
\* arrived, after frames before A-15 were rendered.
C7_Witness ==
    /\ card.success
    /\ card.animation_start >= 16
    /\ cframe = card.animation_start + 5
    /\ card.rank_before = 3
    /\ card.rank_after = 1
    /\ shown.rank = 1
    /\ shown.place_position = R(0)

\* C8: on a failure, the frame f = animation_start shows rank 1 and the
\* failure colour (red) whatever rank_before is, and every frame f <= A-15 or
\* f >= A+6 shows rank_before.
C8_FailureSpike ==
    /\ ~card.success =>
          /\ cframe = card.animation_start =>
                shown.rank = 1 /\ shown.color = "red"
          /\ (cframe <= card.animation_start - 15 \/ cframe >= card.animation_start + 6) =>
                shown.rank = card.rank_before
    /\ Rank(ScenarioCard(FALSE), 900) = 1
    /\ ColorAnimation(ScenarioCard(FALSE), 900) = "red"

\* C8's case: a failed card with rank_before 3 and rank_after 2 at its pivot frame.
C8_Witness ==
    /\ ~card.success
    /\ card.rank_before = 3
    /\ card.rank_after = 2
    /\ card.animation_start >= 16
    /\ cframe = card.animation_start
    /\ shown.rank = 1
    /\ shown.color = "red"

\* C9: the background is the pending colour (yellow) for f < A-48; for
\* A-48 <= f < A it is the blink colour ((A-f) div 6) mod 2 of yellow, green,
\* alternating every 6 frames; for f >= A it is green on a success and red on
\* a failure, and it does not change in any later frame.
C9_ColourSchedule ==
    LET A == card.animation_start
        final == IF card.success THEN "green" ELSE "red"
    IN  /\ cframe < A - 48 => shown.color = "yellow"
        /\ (A - 48 <= cframe /\ cframe < A) =>
              /\ shown.color = (IF ((A - cframe) \div 6) % 2 = 0 THEN "yellow" ELSE "green")
              /\ cframe + 6 < A => ColorAnimation(card, cframe + 6) # shown.color
        /\ cframe >= A =>
              /\ shown.color = final
              /\ \A g \in cframe..(A + FramesAfter) : ColorAnimation(card, g) = final

\* C9's case: a failed card in the second blink block before the pivot (green),
\* having shown the pending colour before.
C9_Witness ==
    /\ ~card.success
    /\ card.animation_start = 50
    /\ cframe = 50 - 7
    /\ shown.color = "green"

\* C10: for f < A+3 the status is the ellipsis glyph (f div 6) mod 5; for
\* f >= A+3 it is the outcome code right-justified to width 3, the same for
\* every such f, and it is never an ellipsis glyph again.
C10_StatusText ==
    LET A == card.animation_start
        Glyph(i) == OutcomeStates[i + 1]
        Justified == IF Len(card.outcome) = 1 THEN <<" ", " ">> \o card.outcome
                     ELSE IF Len(card.outcome) = 2 THEN <<" ">> \o card.outcome
                     ELSE card.outcome
    IN  /\ Len(OutcomeStates) = 5
        /\ \A i \in 1..5 : Len(OutcomeStates[i]) = 3
        /\ cframe < A + 3 => shown.status = Glyph((cframe \div 6) % 5)
        /\ cframe >= A + 3 =>
              /\ shown.status = Justified
              /\ \A i \in 0..4 : shown.status # Glyph(i)
              /\ OutcomeAnimation(card, cframe + 1) = shown.status

\* C10's case: the one-character outcome, shown padded to three, after the
\* ellipsis went through its glyphs.
C10_Witness ==
    /\ card.outcome = <<"F">>
    /\ card.animation_start = 30
    /\ cframe = 33
    /\ shown.status = <<" ", " ", "F">>

\* The seconds a clock reading stands for.
ClockSeconds(c, f) ==
    ClockParts(c, f).hours * 3600 + ClockParts(c, f).minutes * 60 + ClockParts(c, f).seconds

\* C11: the clock of a frame f >= animation_start shows the card's elapsed
\* time, the clock of a frame f < animation_start shows the elapsed time plus
\* (f - animation_start) / fps seconds; the string is HH:MM:SS with
\* hours = ms div 3600000, minutes = (ms mod 3600000) div 60000 and
\* seconds = (ms mod 60000) div 1000 of that millisecond value.
C11_ClockString ==
    LET ms == IF cframe >= card.animation_start THEN R(card.time)
              ELSE RAdd(R(card.time),
                        <<(cframe - card.animation_start) * 1000, card.fps>>)
        whole == ms[1] \div ms[2]
    IN  shown.time = ClockString(whole \div 3600000,
                                 (whole % 3600000) \div 60000,
                                 (whole % 60000) \div 1000)

\* C15 as stated: at frame animation_start of a success the rank shown is
\* the midpoint of the schedule, the value halfway between rank_before and
\* rank_after, rounded to an integer (either way at a half).
C15_RankAtPivotIsMidpoint ==
    (card.success /\ cframe = card.animation_start) =>
        Abs(2 * shown.rank - (card.rank_before + card.rank_after)) <= 1

\* C15, amended: at frame animation_start of a success the rank shown is the
\* value three quarters of the way from rank_before to rank_after,
\* (rank_before + 3 * rank_after) / 4, rounded to the nearest integer, a tie
\* to the even one.
C15_RankAtPivotThreeQuarters ==
    (card.success /\ cframe = card.animation_start) =>
        LET n == card.rank_before + 3 * card.rank_after
            q == n \div 4
        IN  shown.rank = IF n % 4 < 2 THEN q
                         ELSE IF n % 4 > 2 THEN q + 1
                         ELSE IF q % 2 = 0 THEN q ELSE q + 1

\* The pivot frame of a success from rank 1 to rank 5 shows rank 4.
C15_Witness ==
    /\ card.success
    /\ card.rank_before = 1
    /\ card.rank_after = 5
    /\ card.animation_start = 3
    /\ cframe = 3
    /\ shown.rank = 4

\* C18: for a card with time >= 0 the clock never runs backwards, the time
\* shown at a frame is at least the time shown at every earlier frame, and
\* every clock reading has hours >= 0 and minutes and seconds in 0..59, the
\* frames whose offset time is below zero included.
C18_ClockNeverRunsBackwards ==
    card.time >= 0 =>
        /\ \A f1 \in 0..cframe : ClockSeconds(card, f1) <= ClockSeconds(card, cframe)
        /\ ClockParts(card, cframe).hours >= 0
        /\ ClockParts(card, cframe).minutes \in 0..59
        /\ ClockParts(card, cframe).seconds \in 0..59
        /\ shown.time = TimeToString(card, cframe)

\* C19: colour and status text do not tell the outcome before the reveal:
\* for two cards that differ in success and outcome only, color_animation(f)
\* is the same for every frame f < animation_start and outcome_animation(f)
\* is the same for every frame f < animation_start + 3.
C19_OutcomeHiddenBeforeReveal ==
    \A s \in BOOLEAN : \A o \in Outcomes :
        LET other == [card EXCEPT !.success = s, !.outcome = o]
        IN  /\ cframe < card.animation_start =>
                   ColorAnimation(other, cframe) = shown.color
            /\ cframe < card.animation_start + 3 =>
                   OutcomeAnimation(other, cframe) = shown.status

\* A failed card in a green phase of the blink, six frames before the pivot:
\* the accepted card with the same other fields shows the same colour and
\* the same ellipsis.
C19_Witness ==
    /\ ~card.success
    /\ card.outcome = <<"F", "A", "I", "L">>
    /\ card.animation_start = 30
    /\ cframe = 24
    /\ shown.color = "green"
    /\ shown.status = <<" ", " ", ".">>
    /\ ColorAnimation([card EXCEPT !.success = TRUE, !.outcome = <<"A", "C">>], cframe)
         = shown.color
    /\ OutcomeAnimation([card EXCEPT !.success = TRUE, !.outcome = <<"A", "C">>], cframe)
         = shown.status

(***************************************************************************)
(* Claims about interpolate().                                             *)
(***************************************************************************)
\* The first keyframe (from 1) whose time is the queried value.
FirstKeyAt(value, range_values) ==
    Min({j \in 1..Len(range_values) : range_values[j] = value})

\* C12 as stated: for t <= times[0] interpolate returns values[0], for
\* t >= times[-1] it returns values[-1], and for t equal to the time of an
\* interior keyframe i it returns exactly values[i], with every easing.
C12_ClampsAndKeyframes ==
    (call.fn = "interpolate" /\ call.done) =>
        LET n == Len(call.range_values)
        IN  /\ call.raised = "none"
            /\ RLe(call.value, call.range_values[1]) =>
                   call.result = call.output_range[1]
            /\ RLe(call.range_values[n], call.value) =>
                   call.result = call.output_range[n]
            /\ \A i \in 2..(n - 1) :
                   call.value = call.range_values[i] =>
                       call.result = call.output_range[i]

\* C12, amended: for t <= times[0] interpolate returns values[0]; for
\* t >= times[-1] with t > times[0] it returns values[-1]; for t equal to
\* the time of an interior keyframe, strictly between times[0] and times[-1],
\* it returns the value of the first keyframe that has that time, which is
\* values[i] itself when the times are strictly increasing; with every easing.
C12_ClampsAndFirstKeyframe ==
    (call.fn = "interpolate" /\ call.done) =>
        LET n == Len(call.range_values)
        IN  /\ call.raised = "none"
            /\ RLe(call.value, call.range_values[1]) =>
                   call.result = call.output_range[1]
            /\ (RLe(call.range_values[n], call.value)
                /\ ~RLe(call.value, call.range_values[1])) =>
                   call.result = call.output_range[n]
            /\ \A i \in 2..(n - 1) :
                   (/\ call.value = call.range_values[i]
                    /\ ~RLe(call.value, call.range_values[1])
                    /\ ~RLe(call.range_values[n], call.value)) =>
                       /\ call.result
                            = call.output_range[FirstKeyAt(call.value, call.range_values)]
                       /\ (\A j \in 1..(n - 1) :
                               call.range_values[j] # call.range_values[j + 1]) =>
                              call.result = call.output_range[i]

\* A quadratic-eased call at the time two interior keyframes with different
\* values share: the value of the first of them is returned.
C12_Witness ==
    /\ call.fn = "interpolate" /\ call.done
    /\ call.easing = "easeInOutQuad"
    /\ call.range_values = <<R(0), R(1), R(1), R(2)>>
    /\ call.output_range = <<R(0), R(1), R(0), R(1)>>
    /\ call.value = R(1)
    /\ call.result = R(1)

ValidBox(b) == RLe(b[1], b[3]) /\ RLe(b[2], b[4])

\* width times height of a box
Area(b) == RMul(Dimensions(b)[1], Dimensions(b)[2])

\* C14: place_grid never returns a region larger than its input: for a box
\* with right >= left and bottom >= top the returned bounds lie inside the
\* input box and the returned area, width times height, is at most the
\* area of the input.
C14_PlaceGridNeverLarger ==
    (call.fn = "place_grid" /\ call.done /\ ValidBox(call.box)) =>
        LET g == call.result[1]
        IN  /\ RLe(call.box[1], g[1]) /\ RLe(g[1], call.box[3])
            /\ RLe(call.box[1], g[3]) /\ RLe(g[3], call.box[3])
            /\ RLe(call.box[2], g[2]) /\ RLe(g[2], call.box[4])
            /\ RLe(call.box[2], g[4]) /\ RLe(g[4], call.box[4])
            /\ RLe(Area(g), Area(call.box))

\* C16: every layout function keeps the box invariant: on a box with
\* right >= left and bottom >= top and with non-negative width, height,
\* padding, gap and dimensions, every box that split_horizontal,
\* split_vertical, center_anchor, place_above, place_below and place_grid
\* return has right >= left and bottom >= top.
C16_BoxInvariantKept ==
    (/\ call.fn \in {"place_grid", "center_anchor", "place_above", "place_below",
                     "split_horizontal", "split_vertical"}
     /\ call.done
     /\ ValidBox(call.box)
     /\ \A x \in {call.width, call.height, call.padding, call.gap} : RLe(R(0), x)) =>
        \A i \in 1..Len(call.result) : ValidBox(call.result[i])

(***************************************************************************)
(* Claims about try_adding_endline().                                      *)
(***************************************************************************)
\* C17: a text shorter than 15 characters or without a space is returned
\* unchanged with False; otherwise True is returned with a text of the same
\* length that differs from the input at exactly one index p, where the input
\* has a space and the output a line break, and p is a space position nearest
\* to len(text) // 2 among all space positions, the leftmost of the nearest.
C17_BreakAtNearestSpace ==
    (call.fn = "try_adding_endline" /\ call.done) =>
        LET text == call.text
            new == call.result.text
            spaces == {p \in 1..Len(text) : text[p] = " "}
            Dist(p) == Abs((p - 1) - (Len(text) \div 2))
        IN  IF Len(text) < 15 \/ spaces = {}
            THEN call.result = [multiline |-> FALSE, text |-> text]
            ELSE /\ call.result.multiline
                 /\ Len(new) = Len(text)
                 /\ \E p \in spaces :
                        /\ \A q \in 1..Len(text) : (new[q] # text[q]) <=> (q = p)
                        /\ new[p] = "\n"
                        /\ \A q \in spaces : Dist(p) <= Dist(q)
                        /\ \A q \in spaces : Dist(p) = Dist(q) => p <= q

\* A text of 16 characters with spaces at the indexes 7 and 9, one to each
\* side of the middle 8, and nowhere nearer: the break is put at index 7.
C17_Witness ==
    /\ call.fn = "try_adding_endline" /\ call.done
    /\ Len(call.text) = 16
    /\ call.text[8] = " " /\ call.text[9] = "a" /\ call.text[10] = " "
    /\ call.result.multiline
    /\ call.result.text[8] = "\n"
    /\ call.result.text[10] = " "

JobsIdle == jobs = << >>

CardIdle == card = << >> /\ cframe = 0 /\ shown = << >>

CallIdle == call = << >>

RenderNext ==
    \/ Spawn
    \/ RenderFrame
    \/ WriteOk
    \/ WriteFail
    \/ CloseStdin
    \/ Wait
    \/ Replace
    \/ ExceptHandler
    \/ Interrupt
    \/ AtExit
    \/ EncoderOpen
    \/ EncoderDeaf
    \/ EncoderFinish
    \/ EncoderCrash

RenderIdle ==
    /\ pc = "idle"
    /\ last_frame = 0
    /\ frame = 0
    /\ enc = "none"
    /\ rc = "none"
    /\ stdin_closed = FALSE
    /\ tmp = "absent"
    /\ out = "absent"
    /\ out0 = "absent"
    /\ exc = "none"
    /\ events = << >>

Init == RenderInit /\ JobsIdle /\ CardIdle /\ CallIdle

Next == RenderNext

Spec == Init /\ [][Next]_vars

JobsNext ==
    \/ \E j \in JobIds : JobMakedirsRaises(j)
    \/ \E j \in JobIds : JobSpawn(j)
    \/ \E j \in JobIds : JobReplace(j)
    \/ \E j \in JobIds : JobRaise(j)

InitJobs == RenderIdle /\ JobsInit /\ CardIdle /\ CallIdle

SpecJobs == InitJobs /\ [][JobsNext]_vars

InitCard == RenderIdle /\ JobsIdle /\ CardInit /\ CallIdle

CardNext == CardNextFrame

SpecCard == InitCard /\ [][CardNext]_vars

InitClock ==
    /\ RenderIdle /\ JobsIdle /\ CallIdle
    /\ card \in ClockCards
    /\ cframe = 0
    /\ shown = Shown(card, 0)

ClockNext == CardNextFrame

SpecClock == InitClock /\ [][ClockNext]_vars

InitInterpolate == RenderIdle /\ JobsIdle /\ CardIdle /\ InterpolateInit

InterpolateNext == CallInterpolate

SpecInterpolate == InitInterpolate /\ [][InterpolateNext]_vars

InitLayout == RenderIdle /\ JobsIdle /\ CardIdle /\ LayoutInit

LayoutNext ==
    \/ CallPlaceGrid
    \/ CallCenterAnchor
    \/ CallPlaceAbove
    \/ CallPlaceBelow
    \/ CallSplitHorizontal
    \/ CallSplitVertical

SpecLayout == InitLayout /\ [][LayoutNext]_vars

InitText == RenderIdle /\ JobsIdle /\ CardIdle /\ TextInit

TextNext == CallTryAddingEndline

SpecText == InitText /\ [][TextNext]_vars

=============================================================================
